---- MODULE Spec2Model ----
(***************************************************************************)
(* Model of the CloudCIX robot resource workers (src/tasks), the phantom   *)
(* virtual-router dispatcher (src/dispatcher/phantom_virtual_router.py)    *)
(* and the IaaS API record they read and write.                            *)
(*                                                                         *)
(* One project holds one VirtualRouter "vr", one VM "vm", one Backup "bk"  *)
(* and one Snapshot "sn".  The API keeps the state of each.  A behaviour   *)
(* follows one task message (resource, operation): the queue delivers it   *)
(* at least once, each delivery starts a worker run, and a run is a        *)
(* sequence of steps, one per API call or remote execution, so that other  *)
(* runs and API users interleave between any two of its calls.             *)
(***************************************************************************)
EXTENDS Integers, FiniteSets, Sequences, TLC

VARIABLES
    apiState,   \* state of every resource as held by the IaaS API
    apiStrict,  \* whether the API validates robot state transitions
    task,       \* the task message: resource, operation, task or phantom
    run,        \* the worker runs: one record per worker
    delivered,  \* number of deliveries of the task so far
    userLeft,   \* state changes API users / operators may still make
    apiVpn,     \* send_email flag of every VPN of the virtual router (API)
    loop,       \* the polling loop (mainloop.py): position and locals
    listing,    \* one call of utils.api_list: position and locals
    tok,        \* the Token singleton, the clock and the threads reading it
    ctx         \* a virtual router payload and the template data built of it

vars ==
    <<apiState, apiStrict, task, run, delivered, userLeft, apiVpn, loop,
      listing, tok, ctx>>

\* the variables of the worker runs, and the variables outside of them
workerVars == <<apiState, apiStrict, task, run, delivered, userLeft, apiVpn>>
auxVars == <<loop, listing, tok, ctx>>

----------------------------------------------------------------------------
(* Bounds of the model *)

MaxDeliveries == 2
MaxUser == 1

\* two workers take tasks from the queue
Slots == {1, 2}

----------------------------------------------------------------------------
(* The canonical states (state.py is imported by every task) *)

REQUESTED == "REQUESTED"
BUILDING == "BUILDING"
RUNNING == "RUNNING"
QUIESCE == "QUIESCE"
QUIESCING == "QUIESCING"
QUIESCED == "QUIESCED"
RESTART == "RESTART"
RESTARTING == "RESTARTING"
SCRUB == "SCRUB"
SCRUB_PREP == "SCRUB_PREP"
SCRUB_QUEUE == "SCRUB_QUEUE"
SCRUBBING == "SCRUBBING"
CLOSED == "CLOSED"
RUNNING_UPDATE == "RUNNING_UPDATE"
RUNNING_UPDATING == "RUNNING_UPDATING"
QUIESCED_UPDATE == "QUIESCED_UPDATE"
QUIESCED_UPDATING == "QUIESCED_UPDATING"
UNRESOURCED == "UNRESOURCED"

States ==
    { REQUESTED, BUILDING, RUNNING, QUIESCE, QUIESCING, QUIESCED, RESTART,
      RESTARTING, SCRUB, SCRUB_PREP, SCRUB_QUEUE, SCRUBBING, CLOSED,
      RUNNING_UPDATE, RUNNING_UPDATING, QUIESCED_UPDATE, QUIESCED_UPDATING,
      UNRESOURCED }

InProgressStates ==
    { BUILDING, RUNNING_UPDATING, QUIESCED_UPDATING, QUIESCING, SCRUB_PREP,
      SCRUBBING, RESTARTING }

SuccessStates == { RUNNING, QUIESCED, SCRUB_QUEUE, CLOSED }

----------------------------------------------------------------------------
(* Resources and operations *)

Res == {"vr", "vm", "bk", "sn"}

Kind(r) ==
    CASE r = "vr" -> "VirtualRouter"
      [] r = "vm" -> "VM"
      [] r = "bk" -> "Backup"
      [] r = "sn" -> "Snapshot"

ServerBacked(r) == r \in {"vm", "bk", "sn"}

\* the celery tasks that exist for each resource kind
TaskOps(r) ==
    CASE r = "vr" -> {"build", "update", "quiesce", "restart", "scrub", "debug"}
      [] r = "vm" -> {"build", "quiesce", "restart", "scrub"}
      [] OTHER    -> {"build", "update", "scrub"}

\* the methods of the phantom dispatcher, which handles virtual routers only
PhantomOps == {"build", "update", "quiesce", "restart", "scrub"}

\* the operations of the life-cycle table; debug (reset of the firewall
\* debug logging) is a task outside of it
TableOps == {"build", "update", "quiesce", "restart", "scrub"}
AllOps == TableOps \union {"debug"}

\* the VPN tunnels of the virtual router
VPNs == {1, 2}

ServerTypes == {"KVM", "HyperV", "Phantom", "Other"}

----------------------------------------------------------------------------
(* Operation descriptors, read off the guard and the partial updates of    *)
(* each task and of each phantom dispatcher method                         *)

\* does the run read the resource and compare its state before writing?
GuardsState(op, via) ==
    IF via = "phantom" THEN op \in {"quiesce", "update"} ELSE TRUE

\* the states in which the run goes on after reading the resource
TriggerStates(r, op) ==
    CASE op = "build"   -> {REQUESTED}
      [] op = "update"  -> IF r = "vr" THEN {RUNNING_UPDATE, QUIESCED_UPDATE}
                                       ELSE {RUNNING_UPDATE}
      [] op = "quiesce" -> {QUIESCE, SCRUB}
      [] op = "restart" -> {RESTART}
      [] op = "scrub"   -> IF r \in {"vr", "vm"} THEN {SCRUB_QUEUE} ELSE {SCRUB}
      [] op = "debug"   -> {RUNNING}

progress_state(r, op, seen) ==
    CASE op = "build"   -> BUILDING
      [] op = "update"  -> IF r = "vr" /\ seen = QUIESCED_UPDATE
                           THEN QUIESCED_UPDATING ELSE RUNNING_UPDATING
      [] op = "quiesce" -> IF seen = QUIESCE THEN QUIESCING ELSE SCRUB_PREP
      [] op = "restart" -> RESTARTING
      [] op = "scrub"   -> SCRUBBING

stable_state(r, op, seen) ==
    CASE op = "build"   -> RUNNING
      [] op = "update"  -> IF r = "vr" /\ seen = QUIESCED_UPDATE
                           THEN QUIESCED ELSE RUNNING
      [] op = "quiesce" -> IF seen = QUIESCE THEN QUIESCED ELSE SCRUB_QUEUE
      [] op = "restart" -> RUNNING
      [] op = "scrub"   -> CLOSED

\* does the run return when the update to the in-progress state is not 200?
ReturnsOnProgressFailure(r, op, via) ==
    IF via = "phantom" THEN op = "quiesce" ELSE op # "scrub"

\* does the run unresource the resource when its server cannot be read?
UnresourcesOnServerNotRead(r, op) ==
    IF r = "vm" THEN op \in {"build", "quiesce", "restart"} ELSE op = "build"

\* the server types for which the task short-circuits to success
PhantomServerTypes(r) == IF r = "vm" THEN {"Phantom"} ELSE {}

\* the server types for which the task calls a remote driver
DriverServerTypes == {"KVM", "HyperV"}

\* delay of the re-enqueued task, in seconds
VmBuildRetryDelay == 10
VrScrubRetryDelay == 60

----------------------------------------------------------------------------
(* The IaaS API *)

\* the steps of the life-cycle table, and the moves to UNRESOURCED
TableSteps ==
    { <<REQUESTED, BUILDING>>, <<BUILDING, RUNNING>>,
      <<RUNNING_UPDATE, RUNNING_UPDATING>>, <<RUNNING_UPDATING, RUNNING>>,
      <<QUIESCED_UPDATE, QUIESCED_UPDATING>>, <<QUIESCED_UPDATING, QUIESCED>>,
      <<QUIESCE, QUIESCING>>, <<QUIESCING, QUIESCED>>,
      <<SCRUB, SCRUB_PREP>>, <<SCRUB_PREP, SCRUB_QUEUE>>,
      <<SCRUB_QUEUE, SCRUBBING>>, <<SCRUBBING, CLOSED>>,
      <<RESTART, RESTARTING>>, <<RESTARTING, RUNNING>> }

\* a validating API takes from the robot a table step, the direct scrub of a
\* backup or snapshot, and a move to UNRESOURCED of a resource in work
ApiAccepts(r, from, to) ==
    \/ ~apiStrict
    \/ <<from, to>> \in TableSteps
    \/ r \in {"bk", "sn"} /\ from = SCRUB /\ to = SCRUBBING
    \/ to = UNRESOURCED /\ from \in InProgressStates \union {REQUESTED}

\* partial_update(pk, {'state': to}); ok is "the response is HTTP 200"
partial_update(r, to, ok) ==
    /\ ok => ApiAccepts(r, apiState[r], to)
    /\ apiState' = IF ok THEN [apiState EXCEPT ![r] = to] ELSE apiState

----------------------------------------------------------------------------
(* Worker runs *)

IdleRun ==
    [ pc            |-> "idle",
      seen          |-> "none",    \* the resource's state as read by the run
      vr_seen       |-> "none",    \* vm_vr['state'] as read by a VM build
      server_type   |-> "none",
      progress_ok   |-> FALSE,     \* the in-progress update returned 200
      remote        |-> 0,         \* remote executions (SSH / WinRM) made
      success       |-> FALSE,
      return_reason |-> "none",
      last_write    |-> "none",    \* state of the last partial update sent
      writes        |-> 0,         \* partial updates sent
      resched       |-> 0,         \* tasks re-enqueued by apply_async
      eta           |-> 0,         \* delay of the re-enqueued task
      errors_set    |-> FALSE,     \* resource['errors'] = [] was executed
      failure_email |-> "none",    \* the failure notification of the run
      debug_write   |-> FALSE,     \* partial update {'debug': False} sent
      send_email_vpns |-> {},      \* VPNs read with send_email, still to do
      vpn_emailed   |-> {},        \* VPNs whose success email was attempted
      vpn_reset     |-> {},        \* VPNs whose send_email reset was sent
      admin_password |-> FALSE,    \* vm['admin_password'] holds the password
      staging       |-> FALSE,     \* the staging directory of the VM exists
      stderr        |-> FALSE,     \* a remote command of the run wrote stderr
      extra         |-> {},        \* fields other than 'state' of the task's
                                   \* resource changed by the run's writes
      unmapped_vpn  |-> FALSE,     \* a VPN of the router carries a parameter
                                   \* that its lookup table does not hold
      vpn_file_absent |-> FALSE,   \* the router has VPNs and their config
                                   \* file is not on PodNet
      no_sentinel   |-> FALSE,     \* the remote stdout was not empty and did
                                   \* not hold the success message
      subnet_kvm    |-> FALSE,     \* another VM in the subnets of a scrubbed
                                   \* VM is hosted on a KVM server
      bridge_scrubbed |-> FALSE ]  \* the bridge scrub script was run

Finish(w, reason) ==
    [run[w] EXCEPT !.pc = "done", !.return_reason = reason]

\* the step of a task run at which resource['errors'] = [] is executed
ErrorsInitAt(r, op) ==
    IF ServerBacked(r)
    THEN (IF op = "build" THEN "read" ELSE "read_server")
    ELSE (IF op = "debug" THEN "read" ELSE "to_progress")

WithErrors(rec, at) ==
    [rec EXCEPT !.errors_set = rec.errors_set \/ ErrorsInitAt(task.res, task.op) = at]

\* the task messages: a celery task, or a call of the phantom dispatcher
Tasks ==
    { t \in [res : Res, op : AllOps, via : {"task", "phantom"}] :
         IF t.via = "phantom" THEN t.res = "vr" /\ t.op \in PhantomOps
                              ELSE t.op \in TaskOps(t.res) }

\* the task runs that notify the VPNs of the virtual router
NotifiesVpns(t) ==
    t.via = "task" /\ t.res = "vr" /\ t.op \in {"build", "update"}

\* the resources whose state a run of the task reads
Involved(r, op) ==
    IF r = "vm" /\ op = "build" THEN {"vm", "vr"}
    ELSE IF r = "vr" /\ op = "scrub" THEN {"vr", "vm"}
    ELSE {r}

----------------------------------------------------------------------------
(* The polling loop (mainloop.py) and the dispatch of a payload (robot.py) *)

\* bounds of the polling model
MaxItems == 2      \* ids in one payload
MaxProjects == 2   \* projects of the region
MaxRetries == 2    \* nested calls on 'token is expired'

\* time.sleep(15)
SleepSeconds == 15

Projects == 1 .. MaxProjects

\* the buckets of the payload read by Robot.__call__, per kind
BucketNames(r) ==
    IF r \in {"bk", "sn"}
    THEN {"build", "running_update", "quiesced_update", "scrub"}
    ELSE {"build", "quiesce", "scrub", "running_update", "quiesced_update",
          "restart"}

\* an id of the payload, named by the kind and the bucket it is listed in
Items == { i \in [res : Res, bucket : {"build", "quiesce", "scrub",
                                       "running_update", "quiesced_update",
                                       "restart"}] :
             i.bucket \in BucketNames(i.res) }

\* run_robot_get returns None for no work
None == [project_ids |-> {}, items |-> {}]

\* response.json()['content'] of the pending-work endpoint
Payloads ==
    { [project_ids |-> ps, items |-> is] :
         ps \in (SUBSET Projects) \ {{}},
         is \in { x \in SUBSET Items : Cardinality(x) <= MaxItems } }
    \union {None}

\* the answers of the API to a request of the loop: 200 with a content,
\* 401 with 'token is expired' in the detail, another error status, or no
\* answer at all (status 0, the request raised)
Responses ==
    { [status |-> 200, content |-> p] : p \in Payloads }
    \union { [status |-> s, content |-> None] : s \in {401, 500, 0} }

TokenExpired(resp) == resp.status = 401

\* what one frame of run_robot_get returns for the response it received
run_robot_get(resp) ==
    IF resp.status # 200 THEN None
    ELSE IF resp.content.project_ids # {} THEN resp.content
    ELSE None

\* what the outermost frame returns: a frame that received 'token is
\* expired' calls run_robot_get again, drops what that call returns and
\* goes on with its own response
OutermostReturn(depth, resp) ==
    IF depth = 0 THEN run_robot_get(resp)
    ELSE run_robot_get([status |-> 401, content |-> None])

\* the dispatcher calls of Robot.__call__, in order
RobotOrder ==
    << <<"bk", "build">>, <<"sn", "build">>, <<"vr", "build">>,
       <<"vm", "build">>,
       <<"vr", "quiesce">>, <<"vm", "quiesce">>,
       <<"bk", "update">>, <<"sn", "update">>, <<"vr", "update">>,
       <<"vm", "update">>,
       <<"vr", "restart">>, <<"vm", "restart">>,
       <<"bk", "scrub">>, <<"sn", "scrub">> >>

\* the buckets whose ids go to one dispatcher method
BucketsOfRunningOnly(r, method) ==
    CASE method = "update" -> {"running_update"}
      [] method = "quiesce" -> {"quiesce", "scrub"}
      [] OTHER -> {method}

BucketsOf(r, method) ==
    CASE method = "update" -> {"running_update", "quiesced_update"}
      [] method = "quiesce" -> {"quiesce", "scrub"}
      [] OTHER -> {method}

\* the ids one dispatcher call of Robot.__call__ loops over
ToDispatch(data, call) ==
    { i \in data.items : i.res = call[1] /\ i.bucket \in BucketsOf(call[1], call[2]) }

\* PhantomVirtualRouter.update subscripts the response of the read, which
\* raises; no other dispatcher method does
DispatcherRaises(enabled, call) ==
    ~enabled /\ call = <<"vr", "update">>

\* mainloop: a payload goes to Robot, None to time.sleep
AfterGetNoSleep(data) == IF data # None THEN "robot" ELSE "get"

AfterGet(data) == IF data # None THEN "robot" ELSE "sleep"

\* the loop before its first call; enabled is settings.VIRTUAL_ROUTERS_ENABLED
LoopStart(enabled) ==
    [pc |-> "get", enabled |-> enabled, started |-> FALSE, depth |-> 0,
     requests |-> 0, retry_return |-> None, returned_none |-> FALSE,
     data |-> None, call |-> 1, dispatched |-> {}, acks |-> <<>>,
     slept |-> 0, swept |-> FALSE, production |-> FALSE, scrub_sent |-> {}]

----------------------------------------------------------------------------
(* utils.api_list: the first request, then one request per further page *)

\* bounds of the api_list model
MaxPageLen == 2    \* records in the content of one page
MaxTotal == 3      \* total_records of the metadata
MaxPages == 3      \* page numbers told apart after the first

\* the answers of the API to a list request: 200 with n records and a
\* total_records, 401 with 'token is expired', or another error status
ListResponses ==
    { [status |-> 200, n |-> n, total |-> t] :
         n \in 0 .. MaxPageLen, t \in 0 .. MaxTotal }
    \union { [status |-> s, n |-> 0, total |-> 0] : s \in {401, 500} }

\* while len(objects) < total_records
MorePages(objects, total_records) == objects < total_records

AfterPage(objects, total_records) ==
    IF MorePages(objects, total_records) THEN "paging" ELSE "returned"

\* the call before its first request; objects is len(objects)
ListStart ==
    [pc |-> "first", depth |-> 0, objects |-> 0, total_records |-> 0,
     page |-> 0, failed |-> FALSE]

\* the request of page 0; on 'token is expired' api_list returns what a
\* new call of api_list returns
ApiListFirst ==
    /\ listing.pc = "first"
    /\ \E resp \in ListResponses :
         /\ resp.status = 401 => listing.depth < MaxRetries
         /\ listing' =
              IF resp.status = 401
              THEN [listing EXCEPT !.depth = @ + 1]
              ELSE IF resp.status # 200
              THEN [listing EXCEPT !.pc = "returned", !.failed = TRUE]
              ELSE [listing EXCEPT
                       !.objects = resp.n,
                       !.total_records = resp.total,
                       !.pc = AfterPage(resp.n, resp.total)]
    /\ UNCHANGED <<workerVars, loop, tok, ctx>>

\* params['page'] += 1; the loop has no bound on the page, which the model
\* counts modulo MaxPages + 1
NextPage(page) == (page + 1) % (MaxPages + 1)

\* one turn of the while loop: the next page is requested; an answer that
\* is not 200 returns the objects so far, a 200 extends them by its content
ApiListPage ==
    /\ listing.pc = "paging"
    /\ \E resp \in ListResponses :
         listing' =
            IF resp.status # 200
            THEN [listing EXCEPT !.page = NextPage(@), !.pc = "returned",
                                 !.failed = TRUE]
            ELSE [listing EXCEPT
                     !.page = NextPage(@),
                     !.objects = @ + resp.n,
                     !.pc = AfterPage(listing.objects + resp.n,
                                      listing.total_records)]
    /\ UNCHANGED <<workerVars, loop, tok, ctx>>

----------------------------------------------------------------------------
(* cloudcix_token.Token: the singleton, its refresh and the clock *)

\* bounds of the token model
ClockStep == 20    \* minutes between two readings of the clock
MaxTicks == 75     \* readings of the clock in a behaviour on age
MaxRaceTicks == 3  \* readings of the clock in a behaviour on threads
MaxIssued == 3     \* calls of get_admin_token

\* Token.THRESHOLD, in minutes
THRESHOLD == 40

Threads == {1, 2}

\* timedelta.seconds of an elapsed time given in minutes: the seconds of
\* the timedelta without its days
TimedeltaSeconds(elapsed) == (elapsed * 60) % 86400

\* (datetime.utcnow() - self._created).seconds / 60 > self.THRESHOLD
NeedsRefresh(elapsed) == TimedeltaSeconds(elapsed) > THRESHOLD * 60

\* a thread that is not in a call of Token
IdleThread ==
    [pc |-> "idle", self |-> 0, age |-> 0, reissued |-> FALSE, ret |-> 0]

\* before the first access: Token.__instance is None (0), no Token object
\* has its attributes set, no token was issued; the Token object a thread
\* creates is named by the thread
TokStart ==
    [now |-> 0, instance |-> 0, issued |-> 0, saved |-> {},
     obj |-> [i \in Threads |-> [token |-> 0, created |-> 0]],
     th |-> [t \in Threads |-> IdleThread]]

\* the clock advances
Tick(limit) ==
    /\ tok.now < limit * ClockStep
    /\ tok' = [tok EXCEPT !.now = @ + ClockStep]
    /\ UNCHANGED <<workerVars, loop, listing, ctx>>

\* Token.get_instance(): the test of Token.__instance
GetInstance(t) ==
    /\ tok.th[t].pc = "idle"
    /\ tok' = [tok EXCEPT !.th[t] =
                 IF tok.instance = 0
                 THEN [IdleThread EXCEPT !.pc = "init_check"]
                 ELSE [IdleThread EXCEPT !.pc = "read_age",
                                         !.self = tok.instance]]
    /\ UNCHANGED <<workerVars, loop, listing, ctx>>

\* Token.__init__: the test that no instance exists yet, which raises
InitCheck(t) ==
    /\ tok.th[t].pc = "init_check"
    /\ tok' = [tok EXCEPT !.th[t].pc =
                 IF tok.instance # 0 THEN "raised" ELSE "init_issue"]
    /\ UNCHANGED <<workerVars, loop, listing, ctx>>

\* self._token = get_admin_token()
InitIssue(t) ==
    /\ tok.th[t].pc = "init_issue"
    /\ tok.issued < MaxIssued
    /\ tok' = [tok EXCEPT !.issued = @ + 1,
                          !.obj[t].token = tok.issued + 1,
                          !.th[t].pc = "init_created"]
    /\ UNCHANGED <<workerVars, loop, listing, ctx>>

\* self._created = datetime.utcnow()
InitCreated(t) ==
    /\ tok.th[t].pc = "init_created"
    /\ tok' = [tok EXCEPT !.obj[t].created = tok.now,
                          !.th[t].pc = "init_save"]
    /\ UNCHANGED <<workerVars, loop, listing, ctx>>

\* Token.__instance = self, and get_instance returns Token.__instance
InitSave(t) ==
    /\ tok.th[t].pc = "init_save"
    /\ tok' = [tok EXCEPT !.instance = t,
                          !.saved = @ \union {t},
                          !.th[t].pc = "read_age",
                          !.th[t].self = t]
    /\ UNCHANGED <<workerVars, loop, listing, ctx>>

\* Token.token: the test of the age of the token
ReadAge(t) ==
    /\ tok.th[t].pc = "read_age"
    /\ LET elapsed == tok.now - tok.obj[tok.th[t].self].created
       IN tok' = [tok EXCEPT
                    !.th[t].age = elapsed,
                    !.th[t].pc = IF NeedsRefresh(elapsed) THEN "refresh_issue"
                                                          ELSE "return"]
    /\ UNCHANGED <<workerVars, loop, listing, ctx>>

\* self._token = get_admin_token()
RefreshIssue(t) ==
    /\ tok.th[t].pc = "refresh_issue"
    /\ tok.issued < MaxIssued
    /\ tok' = [tok EXCEPT !.issued = @ + 1,
                          !.obj[tok.th[t].self].token = tok.issued + 1,
                          !.th[t].reissued = TRUE,
                          !.th[t].pc = "refresh_created"]
    /\ UNCHANGED <<workerVars, loop, listing, ctx>>

\* self._created = datetime.utcnow()
RefreshCreated(t) ==
    /\ tok.th[t].pc = "refresh_created"
    /\ tok' = [tok EXCEPT !.obj[tok.th[t].self].created = tok.now,
                          !.th[t].pc = "return"]
    /\ UNCHANGED <<workerVars, loop, listing, ctx>>

\* return self._token
ReturnToken(t) ==
    /\ tok.th[t].pc = "return"
    /\ tok' = [tok EXCEPT !.th[t].ret = tok.obj[tok.th[t].self].token,
                          !.th[t].pc = "done"]
    /\ UNCHANGED <<workerVars, loop, listing, ctx>>

\* the caller goes on; its next API call reads the token again
NextCall(t) ==
    /\ tok.th[t].pc = "done"
    /\ tok' = [tok EXCEPT !.th[t] = IdleThread]
    /\ UNCHANGED <<workerVars, loop, listing, ctx>>

\* the steps of one thread
TokenStep(t) ==
    \/ GetInstance(t)
    \/ InitCheck(t)
    \/ InitIssue(t)
    \/ InitCreated(t)
    \/ InitSave(t)
    \/ ReadAge(t)
    \/ RefreshIssue(t)
    \/ RefreshCreated(t)
    \/ ReturnToken(t)
    \/ NextCall(t)

----------------------------------------------------------------------------------------------------------------------------------------------
(* builder/virtual_router.py: the template data of a virtual router *)

\* bounds of the template data model
MaxNets == 2       \* networks the address ranges of a payload lie in
MaxRoutes == 2     \* routes of the VPN
MaxRules == 2      \* firewall rules, and their 'order' values
MaxBuilds == 2     \* times the template data of a payload is built

\* IPNetwork(address_range).cidr: the host bits of the range are cleared
cidr(range) == [net |-> range.net, host |-> FALSE]

\* the payloads: the firewall rules with their order and whether the
\* destination is private, the routes of the VPN with their address
\* ranges, and the traffic_selector flag of the VPN
VrPayloads ==
    LET Ranges == [net : 1 .. MaxNets, host : BOOLEAN]
        Rules == [order : 1 .. MaxRules, private : BOOLEAN]
        Routes == [local_subnet : Ranges, remote_subnet : Ranges]
        SeqsUpTo(S, n) == UNION { [1 .. k -> S] : k \in 0 .. n }
    IN [firewall_rules : SeqsUpTo(Rules, MaxRules),
        routes : SeqsUpTo(Routes, MaxRoutes),
        traffic_selector : BOOLEAN]

\* the iteration orders of a set of str: the hash of a str is salted per
\* interpreter process, so that the order of the same set differs from one
\* process to another
HashOrders ==
    { o \in [1 .. MaxNets -> 1 .. MaxNets] :
         \A i, j \in 1 .. MaxNets : o[i] = o[j] => i = j }

\* ','.join(set(ts)): the networks of the set, in its iteration order
JoinSet(ts, order) ==
    SelectSeq([i \in 1 .. MaxNets |-> [net |-> order[i], host |-> FALSE]],
              LAMBDA x : x \in ts)

\* sorted(firewall_rules, key=order), a stable sort: the rules of order k,
\* as they stand in the payload, before those of the higher orders
RECURSIVE SortedByOrder(_, _)
SortedByOrder(rules, k) ==
    IF k > MaxRules THEN <<>>
    ELSE SelectSeq(rules, LAMBDA r : r.order = k)
            \o SortedByOrder(rules, k + 1)

\* _get_template_data: the firewall rules and the VPN of the context
TemplateData(payload, order) ==
    LET sorted == SortedByOrder(payload.firewall_rules, 1)
        routes == [i \in 1 .. Len(payload.routes) |->
                     [local |-> cidr(payload.routes[i].local_subnet),
                      remote |-> cidr(payload.routes[i].remote_subnet)]]
        local_ts == { routes[i].local : i \in 1 .. Len(routes) }
        remote_ts == { routes[i].remote : i \in 1 .. Len(routes) }
        any == << "0.0.0.0/0" >>
    IN [inbound_firewall_rules |-> SelectSeq(sorted, LAMBDA r : r.private),
        outbound_firewall_rules |-> SelectSeq(sorted, LAMBDA r : ~r.private),
        routes |-> routes,
        local_ts |-> IF payload.traffic_selector
                     THEN JoinSet(local_ts, order) ELSE any,
        remote_ts |-> IF payload.traffic_selector
                      THEN JoinSet(remote_ts, order) ELSE any]

\* no payload read
NoContext == [payload |-> "none", built |-> <<>>]

\* a build or update run of a worker process compiles the template data
\* of the payload
GetTemplateData ==
    /\ Len(ctx.built) < MaxBuilds
    /\ \E order \in HashOrders :
         ctx' = [ctx EXCEPT
                   !.built = Append(@, TemplateData(ctx.payload, order))]
    /\ UNCHANGED <<workerVars, loop, listing, tok>>

----------
(* The initial state *)

Init ==
    /\ apiStrict \in BOOLEAN
    /\ task \in Tasks
    /\ apiState \in
         { f \in [Res -> States] :
              \A r \in Res \ Involved(task.res, task.op) : f[r] = RUNNING }
    /\ run = [w \in Slots |-> IdleRun]
    /\ delivered = 0
    /\ userLeft = MaxUser
    /\ apiVpn \in { f \in [VPNs -> BOOLEAN] :
                      ~NotifiesVpns(task) => \A v \in VPNs : ~f[v] }
    /\ loop = LoopStart(TRUE)
    /\ listing = ListStart
    /\ tok = TokStart
    /\ ctx = NoContext

\* the task is delivered to a free worker, or the main loop calls the
\* phantom dispatcher; the queue delivers at least once, and a re-enqueued
\* task is one more delivery
Dispatch(w) ==
    /\ run[w].pc \in {"idle", "done"}
    /\ delivered < MaxDeliveries
    /\ w > 1 => run[w - 1].pc \notin {"idle", "done"}
    /\ run' = [run EXCEPT ![w] =
                 [IdleRun EXCEPT !.pc = IF GuardsState(task.op, task.via)
                                        THEN "read" ELSE "to_progress"]]
    /\ delivered' = delivered + 1
    /\ UNCHANGED <<apiState, apiStrict, task, userLeft, apiVpn, auxVars>>

\* the state changes users and operators request through the API
UserTargets(from) ==
    CASE from = RUNNING     -> {RUNNING_UPDATE, QUIESCE, SCRUB}
      [] from = QUIESCED    -> {QUIESCED_UPDATE, RESTART, SCRUB}
      [] from = UNRESOURCED -> {REQUESTED, RUNNING_UPDATE, QUIESCE, RESTART, SCRUB}
      [] OTHER              -> {}

UserChange(r, to) ==
    /\ userLeft > 0
    /\ r \in Involved(task.res, task.op)
    /\ to \in UserTargets(apiState[r])
    /\ apiState' = [apiState EXCEPT ![r] = to]
    /\ userLeft' = userLeft - 1
    /\ UNCHANGED <<apiStrict, task, run, delivered, apiVpn, auxVars>>

\* where a run goes once it has read the resource in a trigger state
AfterRead(r, op) ==
    IF r = "vm" /\ op = "build" THEN "read_vr"
    ELSE IF op = "debug" THEN "execute"
    ELSE "to_progress"

\* read the resource by id and compare its state with the trigger state;
\* the debug task also looks for a firewall rule with debug_logging
ReadResource(w) ==
    /\ run[w].pc = "read"
    /\ \E readable \in BOOLEAN, debug \in BOOLEAN :
         LET r == task.res
             op == task.op
         IN run' = [run EXCEPT ![w] =
              IF task.via = "phantom" /\ op = "update"
              THEN Finish(w, "exception")
              ELSE IF ~readable
              THEN Finish(w, "invalid_id")
              ELSE IF apiState[r] \notin TriggerStates(r, op)
              THEN [Finish(w, "not_in_valid_state") EXCEPT !.seen = apiState[r]]
              ELSE IF op = "debug" /\ ~debug
              THEN [Finish(w, "no_debug_logging") EXCEPT !.seen = apiState[r]]
              ELSE [WithErrors(run[w], "read") EXCEPT
                       !.seen = apiState[r],
                       !.send_email_vpns =
                           IF NotifiesVpns(task)
                           THEN {v \in VPNs : apiVpn[v]} ELSE {},
                       !.pc = AfterRead(r, op)]]
    /\ UNCHANGED <<apiState, apiStrict, task, delivered, userLeft, apiVpn, auxVars>>

\* the failure path of a task: partial update to UNRESOURCED, whose
\* response is only logged; the failure email follows
Unresource(w, reason, ok) ==
    /\ partial_update(task.res, UNRESOURCED, ok)
    /\ run' = [run EXCEPT ![w] =
                 [run[w] EXCEPT !.pc = "failure_email",
                                !.return_reason = reason,
                                !.last_write = UNRESOURCED,
                                !.writes = run[w].writes + 1]]

\* EmailNotifier.<kind>_failure pops 'errors' from the resource: a resource
\* without the key raises KeyError, which _unresource logs
FailureEmail(errors_set) == IF errors_set THEN "rendered" ELSE "key_error"

\* the failure notification that ends a failed run
SendFailureEmail(w) ==
    /\ run[w].pc = "failure_email"
    /\ run' = [run EXCEPT ![w] =
                 [run[w] EXCEPT !.pc = "done",
                                !.failure_email = FailureEmail(run[w].errors_set)]]
    /\ UNCHANGED <<apiState, apiStrict, task, delivered, userLeft, apiVpn, auxVars>>

\* a postponement that returns without the apply_async call
PostponedNoEnqueue(rec, reason, delay) ==
    [rec EXCEPT !.pc = "done", !.return_reason = reason]

\* a run that re-enqueues its own task with apply_async(eta = now + delay)
\* and returns
Postponed(rec, reason, delay) ==
    [rec EXCEPT !.pc = "done", !.return_reason = reason,
                !.resched = rec.resched + 1, !.eta = delay]

\* a gate without the elif branch for a virtual router that is not RUNNING
VrGateUnresourcedOnly(vr_state) ==
    IF vr_state = UNRESOURCED THEN "vr_unresourced" ELSE "ready"

\* the gate of a VM build on the state of the project's virtual router
VrGate(vr_state) ==
    IF vr_state = UNRESOURCED THEN "vr_unresourced"
    ELSE IF vr_state # RUNNING THEN "vr_not_ready"
    ELSE "ready"

\* VM build: read the project's virtual router and gate the build on it
ReadProjectVR(w) ==
    /\ run[w].pc = "read_vr"
    /\ \E readable \in BOOLEAN, ok \in BOOLEAN :
         LET saw == [run[w] EXCEPT !.vr_seen = apiState["vr"]]
             gate == VrGate(apiState["vr"])
         IN IF ~readable
            THEN \* vm_vr is {} and vm_vr['state'] raises out of the task
                 /\ run' = [run EXCEPT ![w] = Finish(w, "exception")]
                 /\ UNCHANGED apiState
            ELSE IF gate = "vr_unresourced"
            THEN /\ partial_update("vm", UNRESOURCED, ok)
                 /\ run' = [run EXCEPT ![w] =
                              [saw EXCEPT !.pc = "failure_email",
                                          !.return_reason = gate,
                                          !.last_write = UNRESOURCED,
                                          !.writes = run[w].writes + 1]]
            ELSE IF gate = "vr_not_ready"
            THEN /\ run' = [run EXCEPT ![w] =
                              Postponed(saw, gate, VmBuildRetryDelay)]
                 /\ UNCHANGED apiState
            ELSE /\ run' = [run EXCEPT ![w] = [saw EXCEPT !.pc = "to_progress"]]
                 /\ UNCHANGED apiState
    /\ UNCHANGED <<apiStrict, task, delivered, userLeft, apiVpn, auxVars>>

\* the client method a task or dispatcher method sends its state updates
\* with: the build, restart and update methods of the phantom dispatcher
\* call IAAS.virtual_router.update, everything else partial_update
WriteMethod(t) ==
    IF t.via = "phantom" /\ t.op \in {"build", "restart", "update"}
    THEN "update" ELSE "partial_update"

\* the data of the update to the final state: the Backup build task adds
\* 'time_valid' to the update to RUNNING
FinalData(t, success) ==
    IF t.via = "task" /\ t.res = "bk" /\ t.op = "build" /\ success
    THEN {"state", "time_valid"} ELSE {"state"}

\* the fields other than 'state' that an accepted write changes: those of
\* its data; a full update replaces the resource, so that the fields its
\* data leaves out ("unsent") are written as well
ExtraFields(method, data) ==
    IF method = "update" THEN (data \ {"state"}) \union {"unsent"}
    ELSE data \ {"state"}

\* where a run goes once the in-progress update is behind it
AfterProgress(r, op, via) ==
    IF via = "phantom" THEN "to_final"
    ELSE IF ServerBacked(r) THEN "read_server"
    ELSE IF op = "scrub" THEN "list_vms"
    ELSE "execute"

\* the partial update from the trigger state to the in-progress state
UpdateToProgress(w) ==
    /\ run[w].pc = "to_progress"
    /\ \E ok \in BOOLEAN :
         LET r == task.res
             op == task.op
             via == task.via
             sent == [WithErrors(run[w], "to_progress") EXCEPT
                         !.progress_ok = ok,
                         !.last_write = progress_state(r, op, run[w].seen),
                         !.writes = run[w].writes + 1,
                         !.extra = IF ok
                                   THEN @ \union ExtraFields(WriteMethod(task),
                                                             {"state"})
                                   ELSE @,
                         !.success = (via = "phantom")]
         IN /\ partial_update(r, progress_state(r, op, run[w].seen), ok)
            /\ run' = [run EXCEPT ![w] =
                 IF ~ok /\ ReturnsOnProgressFailure(r, op, via)
                 THEN [sent EXCEPT !.pc = "done",
                                   !.return_reason = "could_not_update_state"]
                 ELSE [sent EXCEPT !.pc = AfterProgress(r, op, via)]]
    /\ UNCHANGED <<apiStrict, task, delivered, userLeft, apiVpn, auxVars>>

\* read the server of the VM to select the remote flavour
ReadServer(w) ==
    /\ run[w].pc = "read_server"
    /\ \E readable \in BOOLEAN, ok \in BOOLEAN, t \in ServerTypes :
         IF readable
         THEN /\ run' = [run EXCEPT ![w] =
                           [WithErrors(run[w], "read_server") EXCEPT
                               !.server_type = t, !.pc = "execute"]]
              /\ UNCHANGED apiState
         ELSE IF UnresourcesOnServerNotRead(task.res, task.op)
         THEN Unresource(w, "server_not_read", ok)
         ELSE /\ run' = [run EXCEPT ![w] = Finish(w, "server_not_read")]
              /\ UNCHANGED apiState
    /\ UNCHANGED <<apiStrict, task, delivered, userLeft, apiVpn, auxVars>>

\* api_list(IAAS.vm, {project, exclude state CLOSED}): the deque it returns;
\* a request that is not answered 200 yields the empty deque
api_list_vms(answered) ==
    IF answered /\ apiState["vm"] # CLOSED THEN {"vm"} ELSE {}

\* the number of VMs that holds back the scrub of a virtual router
ScrubPostponed(vm_count) == vm_count > 0

\* VirtualRouter scrub: postpone while VMs of the project are not CLOSED
ListProjectVMs(w) ==
    /\ run[w].pc = "list_vms"
    /\ \E answered \in BOOLEAN :
         LET vm_count == Cardinality(api_list_vms(answered))
         IN run' = [run EXCEPT ![w] =
              IF ScrubPostponed(vm_count)
              THEN Postponed(run[w], "vms_in_project", VrScrubRetryDelay)
              ELSE [run[w] EXCEPT !.pc = "execute"]]
    /\ UNCHANGED <<apiState, apiStrict, task, delivered, userLeft, apiVpn, auxVars>>

\* what a remote driver (builder, updater, quiescer, restarter, scrubber)
\* can do: fail before connecting, run the script with or without the
\* success it looks for, or raise
DriverOutcomes ==
    {"no_template_data", "keys_missing", "write_failed", "remote_ok",
     "remote_failed", "rmtree_failed", "raised", "netplan_stderr",
     "vpn_key_error", "vpn_not_listed", "rm_absent_stderr",
     "absent_skipped", "stdout_no_sentinel"}

\* "rmtree_failed": the script ran with success, the removal of the files
\* written for it failed, which is logged as a warning
\* "vpn_key_error": a VPN of the router carries a parameter that is not in
\* vpn_mappings, the lookup of _get_template_data raises KeyError
\* "vpn_not_listed": such a VPN exists, the list request of the VPNs was
\* answered with an error, api_list returned no VPN and the script ran
\* "rm_absent_stderr": the router has VPNs and their config file is not
\* on PodNet; the quiescer puts 'sudo rm <file>' before its script, rm
\* writes to stderr, nothing else does
\* "absent_skipped": the same router; the scrubber fails to open the file,
\* leaves the rm out and its script writes nothing to stderr
\* "netplan_stderr": the virtual router builder found no floating-subnet
\* bridge, its 'netplan apply' wrote to stderr, which is appended to the
\* errors of the record, and the build script that followed wrote none:
\* built = True
DriverSuccess(outcome) ==
    outcome \in {"remote_ok", "rmtree_failed", "netplan_stderr",
                 "vpn_not_listed", "absent_skipped"}

DriverRemote(outcome) ==
    IF outcome \in {"remote_ok", "remote_failed", "rmtree_failed",
                     "netplan_stderr", "vpn_not_listed", "rm_absent_stderr",
                     "absent_skipped", "stdout_no_sentinel"}
    THEN 1 ELSE 0

\* the drivers of the server-backed kinds that set their flag on any
\* stdout ('if stdout: scrubbed = True'); the others look for the success
\* message of their script in it
AnyStdoutSucceeds(r, op, server_type) ==
    \/ r = "vm" /\ op \in {"restart", "scrub"} /\ server_type = "KVM"
    \/ r = "bk" /\ op = "update"
    \/ r = "sn" /\ op = "update" /\ server_type = "KVM"
    \/ r \in {"bk", "sn"} /\ op = "scrub" /\ server_type = "HyperV"

\* "stdout_no_sentinel": the script of a server-backed kind ran and wrote
\* to stdout, without the success message
NoSentinel(outcome) == outcome = "stdout_no_sentinel"

\* what api_list returns for a list request: the records that match, or
\* an empty deque when the request was answered with an error
api_list(matching, ok) == IF ok THEN matching ELSE {}

\* the facts a KVM VM scrub meets: the server types of the hosts of the
\* other VMs with an address in the subnets of the VM, and whether each of
\* the three list requests of _determine_bridge_deletion is answered
SubnetFacts ==
    [hosts : SUBSET {"KVM", "HyperV"},
     ips_ok : BOOLEAN, vms_ok : BOOLEAN, servers_ok : BOOLEAN]

\* the facts of a run that does not come to the bridge scrub
NoSubnetFacts ==
    [hosts |-> {}, ips_ok |-> TRUE, vms_ok |-> TRUE, servers_ok |-> TRUE]

\* Linux._determine_bridge_deletion: the other addresses of the subnets,
\* their VMs, the KVM servers among the hosts of these; True if none.  A VM
\* is named here by the type of its host.
determine_bridge_deletion(facts) ==
    LET subnet_ips == api_list(facts.hosts, facts.ips_ok)
        subnet_vms == api_list(subnet_ips, facts.vms_ok)
        servers == api_list({ h \in subnet_vms : h = "KVM" },
                            facts.servers_ok)
    IN servers = {}

\* the task and server type whose driver is scrubbers/vm/linux.py
ScrubsKvmVm(t, server_type) ==
    t.via = "task" /\ t.res = "vm" /\ t.op = "scrub" /\ server_type = "KVM"

\* the tasks whose driver is a VM builder (builder/vm/linux.py, windows.py)
BuildsVm(t) == t.via = "task" /\ t.res = "vm" /\ t.op = "build"

\* does the VM builder return, or raise, with the directory
\* <network drive>/VMs/<project>_<vm> in place?  It is created by
\* _generate_network_drive_files and removed by the rmtree at the end of
\* build; a failed write of a file returns before, an exception other than
\* the SSH ones passes it by
StagingLeft(outcome) == outcome \in {"write_failed", "rmtree_failed", "raised"}

\* _get_template_data stores the generated password in vm_data, unless it
\* returned before (the image could not be downloaded)
PasswordSet(outcome) == outcome # "no_template_data"

\* the task whose driver is builder/virtual_router.py, the only driver
\* that deploys a command (the netplan change) before its script
BuildsVr(t) == t.via = "task" /\ t.res = "vr" /\ t.op = "build"

\* did a command deployed by a virtual router driver return stderr?  The
\* drivers of the virtual router fail their script on stderr alone.
RemoteStderr(outcome) ==
    outcome \in {"remote_failed", "netplan_stderr", "rm_absent_stderr"}

\* the outcomes of the quiescer and the scrubber of a router that has VPNs
\* and no VPN config file: the quiescer issues the rm whenever there are
\* VPNs, the scrubber only after it opened the file
VpnFileAbsent(outcome) == outcome \in {"rm_absent_stderr", "absent_skipped"}

VpnFileOutcome(op) ==
    IF op = "quiesce" THEN "rm_absent_stderr" ELSE "absent_skipped"

\* the outcomes of a builder or updater of a virtual router one of whose
\* VPNs carries a parameter absent from its lookup table
UnmappedVpn(outcome) == outcome \in {"vpn_key_error", "vpn_not_listed"}

\* a failure path that leaves the password in the record
RecordPasswordKept(success, admin_password) == admin_password

\* vm.pop('admin_password', None) of the failure branch of the build task
RecordPassword(success, admin_password) == success /\ admin_password

\* every task ending as the debug task does: email without state update
AfterExecuteAsDebug(op) == "debug_final"

\* where a run goes with the result of the driver
AfterExecute(op) == IF op = "debug" THEN "debug_final" ELSE "to_final"

\* select the driver by server type and run it
Execute(w) ==
    /\ run[w].pc = "execute"
    /\ \E outcome \in DriverOutcomes :
       \E facts \in IF /\ ScrubsKvmVm(task, run[w].server_type)
                       /\ DriverRemote(outcome) > 0
                    THEN SubnetFacts ELSE {NoSubnetFacts} :
         LET r == task.res
             t == run[w].server_type
         IN /\ outcome = "netplan_stderr" => BuildsVr(task)
            /\ UnmappedVpn(outcome) => NotifiesVpns(task)
            /\ NoSentinel(outcome) => task.via = "task" /\ ServerBacked(r)
            /\ VpnFileAbsent(outcome) =>
                  /\ task.via = "task" /\ r = "vr"
                  /\ task.op \in {"quiesce", "scrub"}
                  /\ outcome = VpnFileOutcome(task.op)
            /\ run' = [run EXCEPT ![w] =
              IF ServerBacked(r) /\ t \in PhantomServerTypes(r)
              THEN [run[w] EXCEPT !.success = TRUE, !.pc = AfterExecute(task.op)]
              ELSE IF ServerBacked(r) /\ t \notin DriverServerTypes
              THEN [run[w] EXCEPT !.success = FALSE, !.pc = AfterExecute(task.op)]
              ELSE [run[w] EXCEPT !.success =
                                      \/ DriverSuccess(outcome)
                                      \/ /\ NoSentinel(outcome)
                                         /\ AnyStdoutSucceeds(r, task.op, t),
                                  !.remote = run[w].remote + DriverRemote(outcome),
                                  !.admin_password =
                                      BuildsVm(task) /\ PasswordSet(outcome),
                                  !.staging =
                                      BuildsVm(task) /\ StagingLeft(outcome),
                                  !.stderr =
                                      r = "vr" /\ RemoteStderr(outcome),
                                  !.unmapped_vpn = UnmappedVpn(outcome),
                                  !.no_sentinel = NoSentinel(outcome),
                                  !.subnet_kvm = "KVM" \in facts.hosts,
                                  !.bridge_scrubbed =
                                      /\ ScrubsKvmVm(task, t)
                                      /\ DriverRemote(outcome) > 0
                                      /\ determine_bridge_deletion(facts),
                                  !.vpn_file_absent = VpnFileAbsent(outcome),
                                  !.pc = AfterExecute(task.op)]]
    /\ UNCHANGED <<apiState, apiStrict, task, delivered, userLeft, apiVpn, auxVars>>

\* a final update that does not look at the driver's result
FinalStateIgnoresFailure(r, op, seen, success) == stable_state(r, op, seen)

\* the state a run writes at its end
FinalState(r, op, seen, success) ==
    IF success THEN stable_state(r, op, seen) ELSE UNRESOURCED

\* where a run goes after its last state update: the failure email after
\* UNRESOURCED, the VPN notifications after a virtual router build or update
AfterFinal(t, success, send_email_vpns) ==
    IF t.via = "phantom" THEN "done"
    ELSE IF ~success THEN "failure_email"
    ELSE IF NotifiesVpns(t) /\ send_email_vpns # {} THEN "vpn_email"
    ELSE "done"

\* the partial update to the success state, or to UNRESOURCED
UpdateToFinal(w) ==
    /\ run[w].pc = "to_final"
    /\ \E ok \in BOOLEAN :
         LET r == task.res
             to == FinalState(r, task.op, run[w].seen, run[w].success)
         IN /\ partial_update(r, to, ok)
            /\ run' = [run EXCEPT ![w] =
                 [run[w] EXCEPT !.pc = AfterFinal(task, run[w].success,
                                                     run[w].send_email_vpns),
                                !.return_reason =
                                    IF run[w].success THEN "success: True"
                                                      ELSE "success: False",
                                !.last_write = to,
                                !.writes = run[w].writes + 1,
                                !.extra =
                                    IF ok
                                    THEN @ \union ExtraFields(
                                             WriteMethod(task),
                                             FinalData(task, run[w].success))
                                    ELSE @,
                                !.admin_password =
                                    RecordPassword(run[w].success, @)]]
    /\ UNCHANGED <<apiStrict, task, delivered, userLeft, apiVpn, auxVars>>

\* a second read that is not compared with anything
FreshReadIgnored(fresh_state) == TRUE

\* the second read of the debug task: debug is reset only if the
\* virtual router is in RUNNING now
FreshReadRunning(fresh_state) == fresh_state = RUNNING

\* the end of the debug task: after a successful update of the router the
\* virtual router is read again and, if still RUNNING, its debug flag is
\* reset; after a failed one the failure email is sent, the state is left
DebugFinal(w) ==
    /\ run[w].pc = "debug_final"
    /\ \E readable \in BOOLEAN :
         run' = [run EXCEPT ![w] =
            IF ~run[w].success
            THEN [run[w] EXCEPT !.pc = "failure_email",
                                !.return_reason = "success: False"]
            ELSE IF ~readable
            THEN Finish(w, "exception")
            ELSE [run[w] EXCEPT !.pc = "done",
                                !.return_reason = "success: True",
                                !.debug_write =
                                    FreshReadRunning(apiState["vr"])]]
    /\ UNCHANGED <<apiState, apiStrict, task, delivered, userLeft, apiVpn, auxVars>>

\* the VPN the loop over send_email_vpns is at
NextVpn(todo) == CHOOSE v \in todo : \A u \in todo : v <= u

\* EmailNotifier.vpn_build_success / vpn_update_success: the email is sent,
\* or SMTP fails (logged, the call returns), or rendering raises
VpnEmailOutcomes == {"sent", "smtp_failed", "raised"}

\* the reset of send_email follows the email inside the same try block
ResetAfterEmail(outcome) == outcome # "raised"

AfterVpn(todo) == IF todo = {} THEN "done" ELSE "vpn_email"

\* the success email of one VPN
VpnEmail(w) ==
    /\ run[w].pc = "vpn_email"
    /\ \E outcome \in VpnEmailOutcomes :
         LET v == NextVpn(run[w].send_email_vpns)
             mailed == [run[w] EXCEPT !.vpn_emailed = @ \union {v}]
         IN run' = [run EXCEPT ![w] =
              IF ResetAfterEmail(outcome)
              THEN [mailed EXCEPT !.pc = "vpn_reset"]
              ELSE [mailed EXCEPT !.send_email_vpns = @ \ {v},
                                  !.pc = AfterVpn(run[w].send_email_vpns \ {v})]]
    /\ UNCHANGED <<apiState, apiStrict, task, delivered, userLeft, apiVpn, auxVars>>

\* IAAS.vpn.partial_update(pk, {'send_email': False}); a response that is
\* not 200 is logged
VpnReset(w) ==
    /\ run[w].pc = "vpn_reset"
    /\ \E ok \in BOOLEAN :
         LET v == NextVpn(run[w].send_email_vpns)
         IN /\ apiVpn' = IF ok THEN [apiVpn EXCEPT ![v] = FALSE] ELSE apiVpn
            /\ run' = [run EXCEPT ![w] =
                 [run[w] EXCEPT !.vpn_reset = @ \union {v},
                                !.send_email_vpns = @ \ {v},
                                !.pc = AfterVpn(run[w].send_email_vpns \ {v})]]
    /\ UNCHANGED <<apiState, apiStrict, task, delivered, userLeft, auxVars>>

Next ==
    \/ \E w \in Slots : Dispatch(w)
    \/ \E w \in Slots : ReadResource(w)
    \/ \E w \in Slots : ReadProjectVR(w)
    \/ \E w \in Slots : UpdateToProgress(w)
    \/ \E w \in Slots : ReadServer(w)
    \/ \E w \in Slots : ListProjectVMs(w)
    \/ \E w \in Slots : Execute(w)
    \/ \E w \in Slots : UpdateToFinal(w)
    \/ \E w \in Slots : SendFailureEmail(w)
    \/ \E w \in Slots : DebugFinal(w)
    \/ \E w \in Slots : VpnEmail(w)
    \/ \E w \in Slots : VpnReset(w)
    \/ \E r \in Res, to \in States : UserChange(r, to)

Spec == Init /\ [][Next]_vars

----------------------------------------------------------------------------
(* The chain of reschedules of a task that postpones itself *)

\* the tasks that re-enqueue themselves with apply_async(eta=...): the build
\* of a VM whose virtual router is not RUNNING, and the scrub of a virtual
\* router whose project still has VMs
ChainTasks ==
    { t \in Tasks :
         /\ t.via = "task"
         /\ \/ t.res = "vm" /\ t.op = "build"
            \/ t.res = "vr" /\ t.op = "scrub" }

\* the task was dispatched for a resource in its trigger state
InitChain ==
    /\ Init
    /\ task \in ChainTasks
    /\ apiState[task.res] \in TriggerStates(task.res, task.op)

\* the message of the dispatcher, or the one the last run enqueued for
\* itself, is delivered to the worker; a run that returned without
\* apply_async leaves no message behind
DispatchChain(w) ==
    /\ \/ run[w].pc = "idle"
       \/ run[w].pc = "done" /\ run[w].resched > 0
    /\ run' = [run EXCEPT ![w] = [IdleRun EXCEPT !.pc = "read"]]
    /\ delivered' = IF delivered < MaxDeliveries THEN delivered + 1
                                                 ELSE delivered
    /\ UNCHANGED <<apiState, apiStrict, task, userLeft, apiVpn, auxVars>>

\* the resource the task waits for is settled by the workers in charge of
\* it: the VMs of the project are closed, the virtual router is built or
\* fails to build
Settles ==
    LET waits_for == IF task.res = "vm" THEN "vr" ELSE "vm"
        settled == IF waits_for = "vm" THEN {CLOSED}
                                       ELSE {RUNNING, UNRESOURCED}
    IN /\ apiState[waits_for] \notin settled
       /\ \E to \in settled :
            apiState' = [apiState EXCEPT ![waits_for] = to]
       /\ UNCHANGED <<apiStrict, task, run, delivered, userLeft, apiVpn,
                      auxVars>>

\* the steps of the worker process that runs the task
ChainWorker ==
    \/ DispatchChain(1)
    \/ ReadResource(1)
    \/ ReadProjectVR(1)
    \/ UpdateToProgress(1)
    \/ ReadServer(1)
    \/ ListProjectVMs(1)
    \/ Execute(1)
    \/ UpdateToFinal(1)
    \/ SendFailureEmail(1)

NextChain == ChainWorker \/ Settles

\* the queue delivers an enqueued message and the worker runs a task it
\* took to its return
SpecChain == InitChain /\ [][NextChain]_vars /\ WF_vars(ChainWorker)

----------------------------------------------------------------------------
(* The polling loop: one step per request, dispatcher call or sleep *)

\* one request of run_robot_get to the pending-work endpoint: the call of
\* the loop (depth 0) or the call a frame makes after 'token is expired'
RunRobotGet ==
    /\ loop.pc = "get"
    /\ \E resp \in Responses :
         /\ TokenExpired(resp) => loop.depth < MaxRetries
         /\ LET asked == [loop EXCEPT
                            !.started = TRUE,
                            !.slept = 0,
                            !.requests = IF loop.depth = 0 THEN 1 ELSE @ + 1,
                            !.retry_return = IF loop.depth = 0 THEN None ELSE @]
                data == OutermostReturn(loop.depth, resp)
            IN loop' =
                 IF TokenExpired(resp)
                 THEN [asked EXCEPT !.depth = @ + 1]
                 ELSE [asked EXCEPT
                          !.depth = 0,
                          !.retry_return =
                              IF loop.depth = 1 THEN run_robot_get(resp)
                                                ELSE None,
                          !.data = data,
                          !.returned_none = (data = None),
                          !.pc = AfterGet(data)]
    /\ UNCHANGED <<workerVars, listing, tok, ctx>>

\* one dispatcher call of Robot.__call__ with its loop over the ids; an
\* exception of the dispatcher leaves Robot and the main loop
RobotCall ==
    /\ loop.pc = "robot"
    /\ LET c == RobotOrder[loop.call]
           ids == ToDispatch(loop.data, c)
       IN loop' =
            IF ids # {} /\ DispatcherRaises(loop.enabled, c)
            THEN [loop EXCEPT !.pc = "crashed"]
            ELSE [loop EXCEPT
                     !.dispatched =
                         @ \union { [item |-> i, method |-> c[2]] : i \in ids },
                     !.call = IF @ < Len(RobotOrder) THEN @ + 1 ELSE @,
                     !.pc = IF loop.call < Len(RobotOrder) THEN "robot"
                                                           ELSE "post"]
    /\ UNCHANGED <<workerVars, listing, tok, ctx>>

\* one request of run_robot_post: the project_ids of the payload are
\* posted; on 'token is expired' the frame posts them again; a status other
\* than 200 is logged; a request that raises leaves the main loop
RunRobotPost ==
    /\ loop.pc = "post"
    /\ \E status \in {200, 401, 500, 0} :
         /\ status = 401 => loop.depth < MaxRetries
         /\ LET posted == [loop EXCEPT
                             !.acks = Append(@, loop.data.project_ids)]
            IN loop' =
                 IF status = 0 THEN [posted EXCEPT !.pc = "crashed"]
                 ELSE IF status = 401 THEN [posted EXCEPT !.depth = @ + 1]
                 ELSE [posted EXCEPT !.depth = 0, !.pc = "acked"]
    /\ UNCHANGED <<workerVars, listing, tok, ctx>>

\* while True: the next iteration starts at once; the locals of the
\* iteration are dead from here on
LoopBack ==
    /\ loop.pc = "acked"
    /\ loop' = [loop EXCEPT !.pc = "get", !.data = None, !.call = 1,
                            !.dispatched = {}, !.acks = <<>>,
                            !.requests = 0]
    /\ UNCHANGED <<workerVars, listing, tok, ctx>>

\* time.sleep(15) of the branch without a payload; what the call and its
\* nested call returned is dead from here on
Sleep ==
    /\ loop.pc = "sleep"
    /\ loop' = [loop EXCEPT !.pc = "get", !.slept = SleepSeconds,
                            !.requests = 0, !.retry_return = None]
    /\ UNCHANGED <<workerVars, listing, tok, ctx>>

\* timedelta(days=7) of tasks.scrub
ScrubDelayDays == 7

\* the kinds Robot.scrub lists: _vm_scrub, then _virtual_router_scrub
SweptKinds == {"vm", "vr"}

\* the resources of the region at midnight: the kind, the state and the
\* days since the last update
RegionRecords ==
    [res : SweptKinds, state : {SCRUB_QUEUE, RUNNING},
     days : {ScrubDelayDays - 1, ScrubDelayDays}]

\* a sweep that never sets the timestamp
ScrubTimestampNever(production) == 0

\* the timestamp of tasks.scrub as the least age in days of a resource
\* that 'search[updated__lte]' lets through; None, that is no filter,
\* outside production
ScrubTimestamp(production) == IF production THEN ScrubDelayDays ELSE 0

\* the list request of _vm_scrub and _virtual_router_scrub:
\* search[state] = SCRUB_QUEUE, and search[updated__lte] if there is a
\* timestamp
ListMatches(x, timestamp) == x.state = SCRUB_QUEUE /\ x.days >= timestamp

\* the task tasks.scrub of the beat schedule: both kinds are listed and the
\* scrub method of the dispatcher is called with every id that api_list
\* returned, which are resources the API lists for the parameters; the
\* region holds one resource of each kind
ScrubSweep ==
    /\ ~loop.swept
    /\ \E production \in BOOLEAN, returned \in SUBSET RegionRecords :
         /\ \A x \in returned : ListMatches(x, ScrubTimestamp(production))
         /\ \A x, y \in returned : x.res = y.res => x = y
         /\ loop' = [loop EXCEPT !.swept = TRUE,
                                 !.production = production,
                                 !.scrub_sent = returned]
    /\ UNCHANGED <<workerVars, listing, tok, ctx>>

InitPoll ==
    /\ apiStrict = TRUE
    /\ task = [res |-> "vr", op |-> "build", via |-> "task"]
    /\ apiState = [r \in Res |-> RUNNING]
    /\ run = [w \in Slots |-> IdleRun]
    /\ delivered = 0
    /\ userLeft = MaxUser
    /\ apiVpn = [v \in VPNs |-> FALSE]
    /\ loop \in { LoopStart(enabled) : enabled \in BOOLEAN }
    /\ listing = ListStart
    /\ tok = TokStart
    /\ ctx = NoContext

NextPoll ==
    \/ RunRobotGet
    \/ RobotCall
    \/ RunRobotPost
    \/ LoopBack
    \/ Sleep

SpecPoll == InitPoll /\ [][NextPoll]_vars

\* the dispatch of the payloads by the loop, up to the acknowledgement,
\* and the beat task of the midnight sweep
NextSweep ==
    \/ RunRobotGet
    \/ RobotCall
    \/ Sleep
    \/ ScrubSweep

SpecSweep == InitPoll /\ [][NextSweep]_vars

----------------------------------------------------------------------------
(* The specifications of api_list and of the token *)

\* no worker runs and the loop has not started
OthersIdle ==
    /\ apiStrict = TRUE
    /\ task = [res |-> "vr", op |-> "build", via |-> "task"]
    /\ apiState = [r \in Res |-> RUNNING]
    /\ run = [w \in Slots |-> IdleRun]
    /\ delivered = 0
    /\ userLeft = MaxUser
    /\ apiVpn = [v \in VPNs |-> FALSE]
    /\ loop = LoopStart(TRUE)

InitList ==
    /\ OthersIdle
    /\ listing = ListStart
    /\ tok = TokStart
    /\ ctx = NoContext

NextList ==
    \/ ApiListFirst
    \/ ApiListPage

\* a call of api_list goes on as long as it has a step to take
SpecList == InitList /\ [][NextList]_vars /\ WF_vars(NextList)

\* one thread reads the token again and again while the clock advances
NextTokenAge ==
    \/ Tick(MaxTicks)
    \/ TokenStep(1)

SpecTokenAge == InitList /\ [][NextTokenAge]_vars

\* the threads of one process read the token
NextToken ==
    \/ Tick(MaxRaceTicks)
    \/ \E t \in Threads : TokenStep(t)

SpecToken == InitList /\ [][NextToken]_vars

\* the template data of one payload is built again and again
InitContext ==
    /\ OthersIdle
    /\ listing = ListStart
    /\ tok = TokStart
    /\ ctx \in { [payload |-> p, built |-> <<>>] : p \in VrPayloads }

SpecContext == InitContext /\ [][GetTemplateData]_vars


\* ------------------------------------------------------------------------
\* Properties
\* ------------------------------------------------------------------------

\* runs of the celery tasks (src/tasks), as opposed to the phantom dispatcher
TaskRun == task.via = "task"

\* C1: in every build, update and scrub task run, the remote execution is
\* attempted only after the in-progress partial update returned HTTP 200.
C1_RemoteOnlyAfterProgressUpdate ==
    \A w \in Slots :
        (/\ TaskRun
         /\ task.op \in {"build", "update", "scrub"}
         /\ run[w].remote > 0) => run[w].progress_ok

\* C2: a task run that ends in failure after its in-progress update was
\* accepted (server unreadable, unsupported server type, driver failure)
\* has written UNRESOURCED as its last state.
C2_FailureEndsUnresourced ==
    \A w \in Slots :
        (/\ TaskRun
         /\ run[w].pc = "done"
         /\ run[w].progress_ok
         /\ run[w].return_reason \in {"server_not_read", "success: False"})
        => run[w].last_write = UNRESOURCED

\* the state a run acts upon: the state it read, or for a run that does not
\* read, the state of the resource when it writes
LiveState(w) ==
    IF run[w].seen # "none" THEN run[w].seen ELSE apiState[task.res]

\* C3: a run for a resource whose live state is not the trigger state of
\* the operation issues no API write and no remote execution, phantom
\* dispatcher included: the first write of a run finds the trigger state.
C3_NoWriteOutsideTriggerState ==
    [][\A w \in Slots :
         (\/ run[w].writes = 0 /\ run'[w].writes = 1
          \/ run[w].remote = 0 /\ run'[w].remote = 1)
         => LiveState(w) \in TriggerStates(task.res, task.op)]_vars

\* C4: of two concurrent task runs for the same resource and operation that
\* both read the trigger state, at most one performs the remote execution
\* (API that validates transitions, no operator request in between).
C4_AtMostOneRemoteExecution ==
    (/\ TaskRun
     /\ task.op \in TableOps
     /\ apiStrict
     /\ userLeft = MaxUser
     /\ \A w \in Slots : run[w].seen \in TriggerStates(task.res, task.op))
    => ~(\A w \in Slots : run[w].remote > 0)

\* C5: the scrub script of a virtual router is never run, and the virtual
\* router is never moved to CLOSED, while the VM of the project is not
\* CLOSED (task runs and phantom dispatcher).
C5_VrScrubOnlyWhenVmsClosed ==
    [][(/\ task.res = "vr"
        /\ task.op = "scrub"
        /\ \/ \E w \in Slots : run'[w].remote > run[w].remote
           \/ apiState["vr"] # CLOSED /\ apiState'["vr"] = CLOSED)
       => apiState["vm"] = CLOSED]_vars

\* C6: a virtual router scrub run that finds a VM of the project that is
\* not CLOSED schedules itself once 60 s later, runs nothing remotely, and
\* the virtual router is still SCRUB_QUEUE when the run ends (single
\* delivery, no operator request).
C6_PostponedScrubLeavesScrubQueue ==
    [][\A w \in Slots :
         (/\ delivered = 1
          /\ userLeft = MaxUser
          /\ run[w].pc = "list_vms"
          /\ run'[w].return_reason = "vms_in_project")
         => /\ run'[w].resched = 1
            /\ run'[w].eta = VrScrubRetryDelay
            /\ run'[w].remote = 0
            /\ apiState'["vr"] = SCRUB_QUEUE]_vars

VmBuild == TaskRun /\ task.res = "vm" /\ task.op = "build"

\* C7: at the step in which a VM build run writes RUNNING for the VM, the
\* virtual router of the project is RUNNING.
C7_VrRunningWhenVmSetRunning ==
    [][(/\ VmBuild
        /\ apiState["vm"] # RUNNING
        /\ apiState'["vm"] = RUNNING)
       => apiState["vr"] = RUNNING]_vars

\* C7 amended: a VM build run writes BUILDING or RUNNING for the VM only
\* after it read the virtual router of the project in state RUNNING.
C7_VmRunningOnlyAfterVrSeenRunning ==
    \A w \in Slots :
        (VmBuild /\ run[w].last_write \in {BUILDING, RUNNING})
        => run[w].vr_seen = RUNNING

\* a VM build wrote RUNNING while the virtual router had left RUNNING
C7_Witness ==
    \E w \in Slots :
        /\ VmBuild
        /\ run[w].last_write = RUNNING
        /\ run[w].vr_seen = RUNNING
        /\ apiState["vm"] = RUNNING
        /\ apiState["vr"] # RUNNING

\* C8: a VM build run that finds the virtual router of the project neither
\* RUNNING nor UNRESOURCED ends having written nothing to the VM, run
\* nothing remotely, and enqueued exactly one build 10 s in the future.
C8_VrNotReadyPostponesBuild ==
    \A w \in Slots :
        (VmBuild /\ run[w].vr_seen \notin {"none", RUNNING, UNRESOURCED})
        => /\ run[w].pc = "done"
           /\ run[w].return_reason = "vr_not_ready"
           /\ run[w].writes = 0
           /\ run[w].last_write = "none"
           /\ run[w].remote = 0
           /\ run[w].resched = 1
           /\ run[w].eta = VmBuildRetryDelay

\* a VM build was postponed on a virtual router that is still BUILDING
C8_Witness ==
    \E w \in Slots :
        /\ VmBuild
        /\ run[w].vr_seen = BUILDING
        /\ run[w].resched = 1
        /\ apiState["vm"] = REQUESTED

\* C9: every state change a run makes to a resource is a step of a row of
\* the state table or a move to UNRESOURCED.
C9_EveryWrittenChangeIsTableStep ==
    [][\A r \in Res :
         (/\ apiState'[r] # apiState[r]
          /\ userLeft' = userLeft)
         => \/ <<apiState[r], apiState'[r]>> \in TableSteps
            \/ apiState'[r] = UNRESOURCED]_vars

\* C10: a task run on a server that is not Phantom writes a success state
\* (RUNNING, QUIESCED, SCRUB_QUEUE, CLOSED) only after its remote execution
\* took place and reported success.
C10_SuccessStateOnlyAfterRemoteSuccess ==
    \A w \in Slots :
        (/\ TaskRun
         /\ run[w].last_write \in SuccessStates
         /\ run[w].server_type # "Phantom")
        => run[w].success /\ run[w].remote > 0

\* a VM on a KVM host reached CLOSED after its scrub ran remotely
C10_Witness ==
    \E w \in Slots :
        /\ TaskRun
        /\ task.res = "vm"
        /\ task.op = "scrub"
        /\ run[w].server_type = "KVM"
        /\ run[w].last_write = CLOSED
        /\ run[w].remote > 0
        /\ apiState["vm"] = CLOSED

\* C11: once a resource is UNRESOURCED, only an operator request changes
\* its state, and no run executes remotely for it.
C11_UnresourcedIsInert ==
    [][apiState[task.res] = UNRESOURCED
       => /\ (apiState'[task.res] # UNRESOURCED => userLeft' < userLeft)
          /\ \A w \in Slots : run'[w].remote <= run[w].remote]_vars

\* C12: a task run that sends a failure email has issued the partial update
\* to UNRESOURCED before.
C12_UnresourcedBeforeFailureEmail ==
    \A w \in Slots :
        (TaskRun /\ run[w].failure_email # "none")
        => run[w].last_write = UNRESOURCED

\* C12 amended: a build, update, quiesce, restart or scrub task run that is
\* about to send, or has sent, a failure email has issued the partial update
\* to UNRESOURCED as its last state update.
C12_TableTaskUnresourcedBeforeFailureEmail ==
    \A w \in Slots :
        (/\ TaskRun
         /\ task.op \in TableOps
         /\ (run[w].pc = "failure_email" \/ run[w].failure_email # "none"))
        => run[w].last_write = UNRESOURCED /\ run[w].writes > 0

\* a failed restart sent its failure email after the update to UNRESOURCED
C12_Witness ==
    \E w \in Slots :
        /\ TaskRun
        /\ task.op = "restart"
        /\ run[w].failure_email = "rendered"
        /\ run[w].last_write = UNRESOURCED
        /\ run[w].remote > 0

\* C13: a task run that issued the update to UNRESOURCED ends having sent
\* the failure notification rendered from the errors list.
C13_UnresourcedRunSendsNotification ==
    \A w \in Slots :
        (TaskRun /\ run[w].pc = "done" /\ run[w].last_write = UNRESOURCED)
        => run[w].failure_email = "rendered"

\* C14: after a virtual router build or update run that succeeded, every
\* VPN the run read with send_email = true has send_email = false in the API.
C14_SendEmailResetPersisted ==
    \A w \in Slots :
        (NotifiesVpns(task) /\ run[w].pc = "done" /\ run[w].success)
        => \A v \in run[w].vpn_emailed : ~apiVpn[v]

\* C15: after a virtual router build or update run that succeeded, the
\* email and the send_email reset were both attempted for each VPN read
\* with send_email = true.
C15_EmailAndResetBothAttempted ==
    \A w \in Slots :
        (NotifiesVpns(task) /\ run[w].pc = "done" /\ run[w].success)
        => run[w].vpn_reset = run[w].vpn_emailed

\* C16: a task run ended by an exception raised after the resource was read
\* has issued the update to UNRESOURCED and attempted the failure email.
C16_ExceptionIsFailure ==
    \A w \in Slots :
        (/\ TaskRun
         /\ run[w].pc = "done"
         /\ run[w].seen # "none"
         /\ run[w].return_reason = "exception")
        => run[w].last_write = UNRESOURCED /\ run[w].failure_email # "none"

\* C17: an update run that reads its resource in QUIESCED_UPDATE is not
\* dropped: it issues the update to QUIESCED_UPDATING and, on success, ends
\* with the update to QUIESCED.
C17_QuiescedUpdateHandled ==
    \A w \in Slots :
        (/\ TaskRun
         /\ task.op = "update"
         /\ run[w].pc = "done"
         /\ run[w].seen = QUIESCED_UPDATE)
        => /\ run[w].return_reason # "not_in_valid_state"
           /\ run[w].writes > 0
           /\ run[w].success => run[w].last_write = QUIESCED

\* C18: when the acknowledgement of a polling iteration is posted, every id
\* of every bucket of the payload has been handed to the dispatcher, and
\* every post carries the project_ids of the payload.
C18_DispatchedBeforeAck ==
    loop.acks # <<>>
    => /\ \A i \in loop.data.items : \E d \in loop.dispatched : d.item = i
       /\ \A k \in 1 .. Len(loop.acks) : loop.acks[k] = loop.data.project_ids

\* an iteration acknowledged a payload with an id in a quiesced_update
\* bucket and an id in the scrub bucket of the VMs
C18_Witness ==
    /\ loop.pc = "acked"
    /\ loop.data.project_ids = Projects
    /\ \E i, j \in loop.data.items :
          /\ i.bucket = "quiesced_update"
          /\ j = [res |-> "vm", bucket |-> "scrub"]
          /\ [item |-> i, method |-> "update"] \in loop.dispatched
          /\ [item |-> j, method |-> "quiesce"] \in loop.dispatched

\* C19: every request to the pending-work endpoint but the first follows a
\* sleep of 15 s since the request before.
C19_SleepBetweenRequests ==
    [][loop.pc = "get" /\ loop.started /\ loop' # loop
       => loop.slept = SleepSeconds]_vars

\* C19 amended: a call of run_robot_get by the loop follows a sleep of 15 s
\* when the call before returned None, and follows the acknowledgement at
\* once when it returned a payload; the request a call repeats on 'token
\* is expired' follows without sleep.
C19_SleepOnlyAfterNone ==
    [][loop.pc = "get" /\ loop.started /\ loop' # loop
       => loop.slept = (IF loop.depth = 0 /\ loop.returned_none
                        THEN SleepSeconds ELSE 0)]_vars

\* the loop slept 15 s after a call that returned None and is about to call
C19_Witness ==
    /\ loop.pc = "get"
    /\ loop.started
    /\ loop.depth = 0
    /\ loop.returned_none
    /\ loop.slept = SleepSeconds

\* C20: a run_robot_get that received 'token is expired' made one more
\* request, and returns what the repeated call returned.
C20_RetryOutcomeIsCallOutcome ==
    (loop.pc \in {"robot", "sleep"} /\ loop.requests > 1)
    => loop.requests = 2 /\ loop.data = loop.retry_return

\* C21: a call of api_list returns whatever the API answers, and it asks
\* for a further page only while it holds fewer records than total_records.
C21_ApiListTerminates ==
    /\ [](listing.pc = "paging" => listing.objects < listing.total_records)
    /\ <>(listing.pc = "returned")

\* C22: a read of the token that found it older than 40 minutes, however
\* old, has issued a new token when it returns.
C22_OldTokenReissued ==
    \A t \in Threads :
        (tok.th[t].pc = "done" /\ tok.th[t].age > THRESHOLD)
        => tok.th[t].reissued

\* C23: concurrent first accesses and reads never raise, create one Token
\* instance, and return a token that was issued.
C23_ConcurrentAccessSafe ==
    /\ \A t \in Threads : tok.th[t].pc # "raised"
    /\ Cardinality(tok.saved) <= 1
    /\ \A t \in Threads :
          tok.th[t].pc = "done" => tok.th[t].ret \in 1 .. tok.issued

\* C24: a task run on a VM, Backup or Snapshot whose server is of type
\* Phantom ends without remote execution and with the update to the success
\* state of its operation.
C24_PhantomShortCircuits ==
    \A w \in Slots :
        (/\ TaskRun
         /\ ServerBacked(task.res)
         /\ run[w].server_type = "Phantom"
         /\ run[w].pc = "done")
        => /\ run[w].remote = 0
           /\ run[w].last_write = stable_state(task.res, task.op, run[w].seen)

\* C25: when a VM build run has returned, the staging directory of the VM
\* on the network drive does not exist.
C25_StagingRemovedAtExit ==
    \A w \in Slots :
        (BuildsVm(task) /\ run[w].pc = "done") => ~run[w].staging

\* C26: the VM record holds the admin password neither when the failure
\* email is rendered nor after any failed build; it holds it only after a
\* successful build.
C26_NoPasswordOnFailurePath ==
    \A w \in Slots :
        BuildsVm(task)
        => /\ (run[w].pc = "failure_email" \/ run[w].failure_email # "none")
                => ~run[w].admin_password
           /\ (run[w].pc = "done" /\ run[w].admin_password)
                => run[w].success /\ run[w].remote > 0

\* a build whose script ran and failed has sent its failure email from a
\* record without the password
C26_Witness ==
    \E w \in Slots :
        /\ BuildsVm(task)
        /\ run[w].server_type = "KVM"
        /\ run[w].remote > 0
        /\ ~run[w].success
        /\ run[w].failure_email = "rendered"
        /\ ~run[w].admin_password

\* C27: in every VirtualRouter operation (build, update, quiesce, restart,
\* scrub), if any remote command of the run produced non-empty stderr, the
\* netplan change of the floating-subnet bridge during build included, the
\* operation is reported as failed.
C27_StderrFailsVirtualRouter ==
    \A w \in Slots :
        (TaskRun /\ task.res = "vr" /\ task.op \in TableOps /\ run[w].stderr)
        => ~run[w].success

\* C28: every write the agent sends to the IaaS API changes only the
\* 'state' field of a resource, except 'time_valid' on a Backup build
\* success, 'send_email' on a VPN and 'debug' on a VirtualRouter; no other
\* field of any resource is written.
C28_OnlyStateWritten ==
    \A w \in Slots :
        /\ run[w].extra \subseteq
               IF TaskRun /\ task.res = "bk" /\ task.op = "build"
                          /\ run[w].success
               THEN {"time_valid"} ELSE {}
        /\ run[w].debug_write => task.res = "vr"
        /\ run[w].vpn_reset # {} => task.res = "vr"

\* C29: a VM or VirtualRouter scrub worker is dispatched only for a
\* resource that the daily midnight sweep found listed in state SCRUB_QUEUE
\* (in production, only if last updated at least 7 days earlier); the ids
\* of the scrub bucket of the poll payload are sent to the pre-scrub quiesce
\* worker, not to the scrub worker.
C29_ScrubOnlyFromSweep ==
    /\ \A d \in loop.dispatched :
          d.item.res \in SweptKinds
          => /\ d.method # "scrub"
             /\ d.item.bucket = "scrub" => d.method = "quiesce"
    /\ loop.pc = "post" =>
          \A i \in loop.data.items :
             (i.res \in SweptKinds /\ i.bucket = "scrub")
             => [item |-> i, method |-> "quiesce"] \in loop.dispatched
    /\ \A s \in loop.scrub_sent :
          /\ s.state = SCRUB_QUEUE
          /\ loop.production => s.days >= ScrubDelayDays

C29_Witness ==
    /\ loop.pc = "post"
    /\ \E d \in loop.dispatched :
          d.item.res = "vm" /\ d.item.bucket = "scrub" /\ d.method = "quiesce"
    /\ loop.swept /\ loop.production
    /\ \E s \in loop.scrub_sent : s.res = "vr"

\* C30: building the firewall/VPN template context twice from the same API
\* payload yields identical contexts, and so byte-identical rendered
\* artifacts, including the order of the comma-joined VPN traffic
\* selectors.
C30_ContextDeterministic ==
    \A i, j \in 1 .. Len(ctx.built) : ctx.built[i] = ctx.built[j]

C32_AbsentVpnFileDoesNotFail ==
    \A w \in Slots :
        (task.via = "task" /\ task.res = "vr"
           /\ task.op \in {"quiesce", "scrub"} /\ run[w].vpn_file_absent)
        => /\ ~run[w].stderr
           /\ run[w].success

\* C33: every VM, Backup and Snapshot remote operation is reported
\* successful only if the remote stdout contains the success sentinel of
\* the operation; stdout output that lacks the sentinel never yields the
\* success state.
C33_SuccessNeedsSentinel ==
    \A w \in Slots :
        (TaskRun /\ ServerBacked(task.res) /\ run[w].no_sentinel)
        => /\ ~run[w].success
           /\ run[w].last_write # stable_state(task.res, task.op, run[w].seen)

\* C34: on a KVM VM scrub, the subnet bridge scrub script is run only if no
\* other VM with an address in the subnets of the scrubbed VM is hosted on
\* a KVM server, also when one of the list requests used to determine it
\* returns an error.
C34_BridgeKeptForOtherKvmVm ==
    \A w \in Slots :
        run[w].bridge_scrubbed => ~run[w].subnet_kvm

\* C35: if a virtual router in SCRUB_QUEUE is picked up by the scrub
\* worker while VMs of the project are still open and all those VMs later
\* become CLOSED, then a rescheduled run eventually performs the scrub and
\* the virtual router eventually reaches CLOSED (or UNRESOURCED if the
\* remote scrub fails).
C35_PostponedScrubCompletes ==
    []((/\ task.res = "vr"
        /\ run[1].pc = "done"
        /\ run[1].return_reason = "vms_in_project")
          => (<>(apiState["vm"] = CLOSED)
                => <>(apiState["vr"] \in {CLOSED, UNRESOURCED})))

\* C36: every worker run that moved a resource into an in-progress state
\* (BUILDING, RUNNING_UPDATING, QUIESCED_UPDATING, QUIESCING, SCRUB_PREP,
\* SCRUBBING, RESTARTING) ends with the resource in the success state of
\* the operation or in UNRESOURCED; no run returns leaving the resource in
\* the in-progress state.
C36_NoRunEndsInProgress ==
    \A w \in Slots :
        (/\ TaskRun
         /\ task.op # "debug"
         /\ run[w].pc = "done"
         /\ run[w].progress_ok)
        => /\ run[w].last_write \notin InProgressStates
           /\ run[w].last_write \in
                 {stable_state(task.res, task.op, run[w].seen), UNRESOURCED}

C38_DeferredBuildLeavesRequested ==
    []((/\ task.res = "vm"
        /\ run[1].pc = "done"
        /\ run[1].return_reason = "vr_not_ready"
        /\ apiState["vm"] = REQUESTED)
          => (<>[](apiState["vr"] \in {RUNNING, UNRESOURCED})
                => <>(apiState["vm"] \in {BUILDING, UNRESOURCED})))

\* C39: a worker's final state write (success state or UNRESOURCED) takes
\* effect only if the resource is still in the in-progress state that this
\* worker set; a state written to the resource by another actor in between
\* is never overwritten.  Stated for an API that validates the transitions
\* it is asked for, the case most favourable to the claim.
C39_FinalWriteOnlyOverOwnProgress ==
    [][\A w \in Slots :
         (/\ apiStrict
          /\ TaskRun
          /\ run[w].pc = "to_final"
          /\ run'[w].pc # "to_final"
          /\ apiState'[task.res] # apiState[task.res])
         => apiState[task.res] =
               progress_state(task.res, task.op, run[w].seen)]_vars

\* C40: the debug-reset task of a virtual router never writes the state of
\* the router, runs its remote update only when it read the router in
\* RUNNING, and writes debug=false only if the remote update succeeded and
\* a fresh read after it still shows the router in RUNNING.
C40_DebugTaskLeavesState ==
    [][\A w \in Slots :
         (task.op = "debug" /\ run'[w] # run[w])
         => /\ apiState' = apiState
            /\ run'[w].writes = 0
            /\ run'[w].last_write = "none"
            /\ run'[w].remote > run[w].remote => run[w].seen = RUNNING
            /\ (run'[w].debug_write /\ ~run[w].debug_write)
                  => /\ run[w].success
                     /\ run[w].remote > 0
                     /\ apiState["vr"] = RUNNING]_vars

\* a debug run that reset the flag after its remote update
C40_Witness ==
    \E w \in Slots :
        /\ task.op = "debug"
        /\ run[w].pc = "done"
        /\ run[w].remote > 0
        /\ run[w].debug_write

====
